---- MODULE Spec2Model ----
(***************************************************************************)
(* A state-machine model of src/main.rs: one function, main, made of six   *)
(* scoped blocks that show scope, String, allocation, move, clone and copy.*)
(*                                                                         *)
(* pc is the source line of the next statement.  Text is a sequence of     *)
(* one-character strings.  A String binding holds the handle of a heap     *)
(* buffer; the allocator chooses the buffer's address among the free ones. *)
(***************************************************************************)
EXTENDS Integers, Sequences, FiniteSets, TLC

VARIABLES pc, scopes, env, heap, out, exit, rd, wr, trace

vars == <<pc, scopes, env, heap, out, exit, rd, wr, trace>>

(* ------------------------------ bounds --------------------------------- *)

\* number of distinct addresses the allocator can hand out
NumAddr == 6

\* longest text the clone harness lets a buffer grow to
MaxLen == 4

Addrs == 1..NumAddr

(* ------------------------------ literals ------------------------------- *)

\* "hello" (lines 5, 12, 22, 31, 39)
Hello == <<"h", "e", "l", "l", "o">>

\* ", world!" (line 14)
CommaWorld == <<",", " ", "w", "o", "r", "l", "d", "!">>

\* the static string table: a &str points into it
Statics == <<Hello>>

\* format pieces of println!("{}", s) (line 16)
Fmt16 == << <<>>, <<>> >>

\* format pieces of println!("s1 = {}, s2 = {}", s1, s2) (line 42)
Fmt42 == << <<"s", "1", " ", "=", " ">>, <<",", " ", "s", "2", " ", "=", " ">>, <<>> >>

\* format pieces of println!("x = {}, y = {}", x, y) (line 50)
Fmt50 == << <<"x", " ", "=", " ">>, <<",", " ", "y", " ", "=", " ">>, <<>> >>

(* ------------------------------ bindings ------------------------------- *)

\* a binding is named by the block that declares it and its identifier
Bind(b, n) == [blk |-> b, name |-> n]

\* the value a binding holds: a static index (&str), a buffer handle
\* (String) or a number (i32); st is "valid" or "moved"
Val(t, v) == [st |-> "valid", ty |-> t, val |-> v]

\* i32 is Copy; String is not
IsCopy(t) == t \in {"i32", "&str"}

\* no binding is in scope
EmptyEnv == [b \in {} |-> b]

\* let b = v: the binding enters the environment
Declare(e, b, v) == (b :> v) @@ e

\* let dst = src, always a bitwise copy that leaves src valid
AssignAlwaysCopy(e, dst, src) == Declare(e, dst, e[src])

\* let dst = src, always a move that invalidates src
AssignAlwaysMove(e, dst, src) == Declare([e EXCEPT ![src].st = "moved"], dst, e[src])

\* let dst = src: a copy for a Copy type, a move otherwise
Assign(e, dst, src) ==
    IF IsCopy(e[src].ty)
    THEN Declare(e, dst, e[src])
    ELSE Declare([e EXCEPT ![src].st = "moved"], dst, e[src])

(* -------------------------------- heap --------------------------------- *)

\* handles of the buffers not yet released
Live(h) == {i \in 1..Len(h) : h[i].rel = 0}

\* addresses no live buffer occupies
FreeAddrs(h) == Addrs \ {h[i].addr : i \in Live(h)}

\* String::from(lit): a new buffer at address a holding a copy of lit
StringFrom(h, lit, a) ==
    Append(h, [addr |-> a, cap |-> Len(lit), data |-> lit, rel |-> 0])

\* a clone that allocates but copies nothing
CloneEmpty(h, id, a) ==
    Append(h, [addr |-> a, cap |-> Len(h[id].data), data |-> <<>>, rel |-> 0])

\* s.clone(): a new buffer at address a holding a copy of the content
Clone(h, id, a) ==
    Append(h, [addr |-> a, cap |-> Len(h[id].data), data |-> h[id].data, rel |-> 0])

\* a clone that shares the buffer of the original
CloneAlias(h, id) == id

\* the handle of the buffer the clone owns: the one Clone appends
CloneOf(h, id) == Len(h) + 1

Max(a, b) == IF a >= b THEN a ELSE b

\* capacity after growing a buffer of capacity c to hold n bytes
GrowCap(c, n) == Max(Max(2 * c, n), 8)

\* addresses push_str may leave the buffer at: its own when the text fits
\* or grows in place, any free one when the reallocation moves it
PushAddrs(h, id, lit) ==
    IF Len(h[id].data) + Len(lit) <= h[id].cap
    THEN {h[id].addr}
    ELSE {h[id].addr} \cup FreeAddrs(h)

\* a push_str whose reallocation loses the old content
PushStrNoCopy(h, id, lit, a) ==
    IF Len(h[id].data) + Len(lit) <= h[id].cap
    THEN [h EXCEPT ![id].data = @ \o lit]
    ELSE [h EXCEPT ![id] = [addr |-> a,
                            cap  |-> GrowCap(@.cap, Len(@.data) + Len(lit)),
                            data |-> lit,
                            rel  |-> @.rel]]

\* s.push_str(lit): append lit, reallocating to address a when it does
\* not fit
PushStr(h, id, lit, a) ==
    IF Len(h[id].data) + Len(lit) <= h[id].cap
    THEN [h EXCEPT ![id].data = @ \o lit]
    ELSE [h EXCEPT ![id] = [addr |-> a,
                            cap  |-> GrowCap(@.cap, Len(@.data) + Len(lit)),
                            data |-> @.data \o lit,
                            rel  |-> @.rel]]

\* a release that leaves the buffer allocated
ReleaseKeep(h, id) == h

\* the buffer is returned to the allocator; rel counts the releases
Release(h, id) ==
    [h EXCEPT ![id] = [addr |-> 0, cap |-> 0, data |-> <<>>, rel |-> @.rel + 1]]

\* a drop that also runs for a moved-from binding
DropBindingMoved(h, e, b) ==
    IF e[b].ty = "String" THEN Release(h, e[b].val) ELSE h

\* the drop of one binding at the end of its scope: a String that still
\* owns its buffer releases it
DropBinding(h, e, b) ==
    IF e[b].ty = "String" /\ e[b].st = "valid" THEN Release(h, e[b].val) ELSE h

\* a scope end that drops only the binding declared last
DropFrameLast(h, e, f) ==
    IF f = <<>> THEN h ELSE DropBinding(h, e, f[Len(f)])

RECURSIVE DropFrame(_, _, _)
\* the bindings of a frame are dropped in reverse order of declaration
DropFrame(h, e, f) ==
    IF f = <<>> THEN h
    ELSE DropFrame(DropBinding(h, e, f[Len(f)]), e, SubSeq(f, 1, Len(f) - 1))

\* the elements of a sequence
Range(f) == {f[i] : i \in 1..Len(f)}

\* a scope end that keeps its bindings in the environment
LeaveScopeKeep(e, f) == e

\* the bindings of the closed frame leave the environment
LeaveScope(e, f) == [b \in (DOMAIN e) \ Range(f) |-> e[b]]

(* ------------------------------ printing ------------------------------- *)

Digits == <<"0", "1", "2", "3", "4", "5", "6", "7", "8", "9">>

RECURSIVE FmtNat(_)
\* the decimal digits of a natural number
FmtNat(n) ==
    IF n < 10 THEN <<Digits[n + 1]>>
    ELSE FmtNat(n \div 10) \o <<Digits[(n % 10) + 1]>>

\* Display for i32
FmtInt(n) == IF n < 0 THEN <<"-">> \o FmtNat(0 - n) ELSE FmtNat(n)

\* Display for a binding's value
Display(h, e, b) ==
    CASE e[b].ty = "String" -> h[e[b].val].data
      [] e[b].ty = "&str"   -> Statics[e[b].val]
      [] e[b].ty = "i32"    -> FmtInt(e[b].val)

RECURSIVE Format(_, _)
\* the pieces of a format string with the arguments in the holes
Format(pieces, args) ==
    IF args = <<>> THEN pieces[1]
    ELSE pieces[1] \o args[1] \o Format(Tail(pieces), Tail(args))

\* a print that leaves the line open
PrintLineNoNewline(pieces, args) == Format(pieces, args)

\* println!: the formatted text and a newline
PrintLine(pieces, args) == Format(pieces, args) \o <<"\n">>

(* ----------------------------- statements ------------------------------ *)

\* the frame on top of the scope stack
Top == scopes[Len(scopes)]

\* the top frame with one more binding
Push(b) == [scopes EXCEPT ![Len(scopes)] = Append(@, b)]

\* `{` at line l; n is the line of the next statement
OpenBlock(l, n) ==
    /\ pc = l
    /\ pc' = n
    /\ scopes' = Append(scopes, <<>>)
    /\ rd' = {} /\ wr' = {}
    /\ UNCHANGED <<env, heap, out, exit>>

\* `}` at line l; n is the line of the next statement: the frame's bindings
\* are dropped and leave scope
CloseBlock(l, n) ==
    /\ pc = l
    /\ pc' = n
    /\ heap' = DropFrame(heap, env, Top)
    /\ env' = LeaveScope(env, Top)
    /\ scopes' = SubSeq(scopes, 1, Len(scopes) - 1)
    /\ rd' = {} /\ wr' = {}
    /\ UNCHANGED <<out, exit, trace>>

Init ==
    /\ pc = 3
    /\ scopes = << <<>> >>
    /\ env = EmptyEnv
    /\ heap = <<>>
    /\ out = <<>>
    /\ exit = <<>>
    /\ rd = {}
    /\ wr = {}
    /\ trace = <<>>

(* block 1: variable scope *)

B1_Open == OpenBlock(3, 5) /\ trace' = Append(trace, 1)

B1_Let ==
    /\ pc = 5
    /\ pc' = 8
    /\ env' = Declare(env, Bind(1, "s"), Val("&str", 1))
    /\ scopes' = Push(Bind(1, "s"))
    /\ rd' = {} /\ wr' = {}
    /\ UNCHANGED <<heap, out, exit, trace>>

B1_Close == CloseBlock(8, 11)

(* block 2: the String type *)

B2_Open == OpenBlock(11, 12) /\ trace' = Append(trace, 2)

B2_From ==
    /\ pc = 12
    /\ pc' = 14
    /\ \E a \in FreeAddrs(heap) : heap' = StringFrom(heap, Hello, a)
    /\ env' = Declare(env, Bind(2, "s"), Val("String", Len(heap) + 1))
    /\ scopes' = Push(Bind(2, "s"))
    /\ rd' = {} /\ wr' = {}
    /\ UNCHANGED <<out, exit, trace>>

B2_PushStr ==
    /\ pc = 14
    /\ pc' = 16
    /\ \E a \in PushAddrs(heap, env[Bind(2, "s")].val, CommaWorld) :
          heap' = PushStr(heap, env[Bind(2, "s")].val, CommaWorld, a)
    /\ rd' = {} /\ wr' = {Bind(2, "s")}
    /\ UNCHANGED <<scopes, env, out, exit, trace>>

B2_Println ==
    /\ pc = 16
    /\ pc' = 17
    /\ out' = out \o PrintLine(Fmt16, <<Display(heap, env, Bind(2, "s"))>>)
    /\ rd' = {Bind(2, "s")} /\ wr' = {}
    /\ UNCHANGED <<scopes, env, heap, exit, trace>>

B2_Close == CloseBlock(17, 20)

(* block 3: memory and allocation *)

B3_Open == OpenBlock(20, 21) /\ trace' = Append(trace, 3)

B3_OpenInner == OpenBlock(21, 22) /\ UNCHANGED trace

B3_From ==
    /\ pc = 22
    /\ pc' = 25
    /\ \E a \in FreeAddrs(heap) : heap' = StringFrom(heap, Hello, a)
    /\ env' = Declare(env, Bind(3, "s"), Val("String", Len(heap) + 1))
    /\ scopes' = Push(Bind(3, "s"))
    /\ rd' = {} /\ wr' = {}
    /\ UNCHANGED <<out, exit, trace>>

B3_CloseInner == CloseBlock(25, 27)

B3_Close == CloseBlock(27, 30)

(* block 4: move *)

B4_Open == OpenBlock(30, 31) /\ trace' = Append(trace, 4)

B4_From ==
    /\ pc = 31
    /\ pc' = 32
    /\ \E a \in FreeAddrs(heap) : heap' = StringFrom(heap, Hello, a)
    /\ env' = Declare(env, Bind(4, "s1"), Val("String", Len(heap) + 1))
    /\ scopes' = Push(Bind(4, "s1"))
    /\ rd' = {} /\ wr' = {}
    /\ UNCHANGED <<out, exit, trace>>

B4_Move ==
    /\ pc = 32
    /\ pc' = 35
    /\ env' = Assign(env, Bind(4, "s2"), Bind(4, "s1"))
    /\ scopes' = Push(Bind(4, "s2"))
    /\ rd' = {Bind(4, "s1")} /\ wr' = {}
    /\ UNCHANGED <<heap, out, exit, trace>>

B4_Close == CloseBlock(35, 38)

(* block 5: clone *)

B5_Open == OpenBlock(38, 39) /\ trace' = Append(trace, 5)

B5_From ==
    /\ pc = 39
    /\ pc' = 40
    /\ \E a \in FreeAddrs(heap) : heap' = StringFrom(heap, Hello, a)
    /\ env' = Declare(env, Bind(5, "s1"), Val("String", Len(heap) + 1))
    /\ scopes' = Push(Bind(5, "s1"))
    /\ rd' = {} /\ wr' = {}
    /\ UNCHANGED <<out, exit, trace>>

B5_Clone ==
    /\ pc = 40
    /\ pc' = 42
    /\ \E a \in FreeAddrs(heap) : heap' = Clone(heap, env[Bind(5, "s1")].val, a)
    /\ env' = Declare(env, Bind(5, "s2"),
                       Val("String", CloneOf(heap, env[Bind(5, "s1")].val)))
    /\ scopes' = Push(Bind(5, "s2"))
    /\ rd' = {Bind(5, "s1")} /\ wr' = {}
    /\ UNCHANGED <<out, exit, trace>>

B5_Println ==
    /\ pc = 42
    /\ pc' = 43
    /\ out' = out \o PrintLine(Fmt42, <<Display(heap, env, Bind(5, "s1")),
                                        Display(heap, env, Bind(5, "s2"))>>)
    /\ rd' = {Bind(5, "s1"), Bind(5, "s2")} /\ wr' = {}
    /\ UNCHANGED <<scopes, env, heap, exit, trace>>

B5_Close == CloseBlock(43, 46)

(* block 6: copy *)

B6_Open == OpenBlock(46, 47) /\ trace' = Append(trace, 6)

B6_LetX ==
    /\ pc = 47
    /\ pc' = 48
    /\ env' = Declare(env, Bind(6, "x"), Val("i32", 5))
    /\ scopes' = Push(Bind(6, "x"))
    /\ rd' = {} /\ wr' = {}
    /\ UNCHANGED <<heap, out, exit, trace>>

B6_LetY ==
    /\ pc = 48
    /\ pc' = 50
    /\ env' = Assign(env, Bind(6, "y"), Bind(6, "x"))
    /\ scopes' = Push(Bind(6, "y"))
    /\ rd' = {Bind(6, "x")} /\ wr' = {}
    /\ UNCHANGED <<heap, out, exit, trace>>

B6_Println ==
    /\ pc = 50
    /\ pc' = 51
    /\ out' = out \o PrintLine(Fmt50, <<Display(heap, env, Bind(6, "x")),
                                        Display(heap, env, Bind(6, "y"))>>)
    /\ rd' = {Bind(6, "x"), Bind(6, "y")} /\ wr' = {}
    /\ UNCHANGED <<scopes, env, heap, exit, trace>>

B6_Close == CloseBlock(51, 52)

\* `}` at line 52, the end of main: its frame is closed and the process
\* exits with status 0
MainReturn ==
    /\ pc = 52
    /\ pc' = 53
    /\ heap' = DropFrame(heap, env, Top)
    /\ env' = LeaveScope(env, Top)
    /\ scopes' = SubSeq(scopes, 1, Len(scopes) - 1)
    /\ exit' = <<0>>
    /\ rd' = {} /\ wr' = {}
    /\ UNCHANGED <<out, trace>>

Next ==
    \/ B1_Open \/ B1_Let \/ B1_Close
    \/ B2_Open \/ B2_From \/ B2_PushStr \/ B2_Println \/ B2_Close
    \/ B3_Open \/ B3_OpenInner \/ B3_From \/ B3_CloseInner \/ B3_Close
    \/ B4_Open \/ B4_From \/ B4_Move \/ B4_Close
    \/ B5_Open \/ B5_From \/ B5_Clone \/ B5_Println \/ B5_Close
    \/ B6_Open \/ B6_LetX \/ B6_LetY \/ B6_Println \/ B6_Close
    \/ MainReturn

Spec == Init /\ [][Next]_vars

\* main runs to its end: every statement is eventually executed
FairSpec == Spec /\ WF_vars(Next)

(* ------------------- clone followed by mutation ------------------------ *)
(* Block 5 with the text and the appended literals drawn from small sets   *)
(* and push_str applied to either binding after the clone.                 *)

\* texts the original is built from
Texts == {<<>>, <<"a">>, <<"a", "b">>}

\* literals appended after the clone
Lits == {<<"a">>, <<"b">>, <<"b", "a">>}

InitClone ==
    /\ pc = 38
    /\ scopes = << <<>> >>
    /\ env = EmptyEnv
    /\ heap = <<>>
    /\ out = <<>>
    /\ exit = <<>>
    /\ rd = {}
    /\ wr = {}
    /\ trace = <<>>

\* line 39 with any text in place of "hello"
H_From ==
    /\ pc = 39
    /\ pc' = 40
    /\ \E t \in Texts : \E a \in FreeAddrs(heap) : heap' = StringFrom(heap, t, a)
    /\ env' = Declare(env, Bind(5, "s1"), Val("String", Len(heap) + 1))
    /\ scopes' = Push(Bind(5, "s1"))
    /\ rd' = {} /\ wr' = {}
    /\ UNCHANGED <<out, exit, trace>>

\* line 40
H_Clone ==
    /\ pc = 40
    /\ pc' = 42
    /\ \E a \in FreeAddrs(heap) : heap' = Clone(heap, env[Bind(5, "s1")].val, a)
    /\ env' = Declare(env, Bind(5, "s2"),
                       Val("String", CloneOf(heap, env[Bind(5, "s1")].val)))
    /\ scopes' = Push(Bind(5, "s2"))
    /\ rd' = {Bind(5, "s1")} /\ wr' = {}
    /\ UNCHANGED <<out, exit, trace>>

\* push_str (line 14) applied to s1 or to s2 between lines 40 and 42
H_PushStr ==
    /\ pc = 42
    /\ pc' = 42
    /\ \E b \in {Bind(5, "s1"), Bind(5, "s2")} : \E lit \in Lits :
          /\ Len(heap[env[b].val].data) + Len(lit) <= MaxLen
          /\ \E a \in PushAddrs(heap, env[b].val, lit) :
                heap' = PushStr(heap, env[b].val, lit, a)
          /\ wr' = {b}
    /\ rd' = {}
    /\ UNCHANGED <<scopes, env, out, exit, trace>>

NextClone ==
    \/ B5_Open \/ H_From \/ H_Clone \/ H_PushStr \/ B5_Println \/ B5_Close

SpecClone == InitClone /\ [][NextClone]_vars

(* ------------------------------ properties ----------------------------- *)

\* the text of the buffer a String binding points to
Content(b) == heap[env[b].val].data

\* the valid String bindings that own buffer i
Owners(i) ==
    {b \in DOMAIN env : env[b].ty = "String" /\ env[b].st = "valid" /\ env[b].val = i}

\* the last n elements of a sequence
Last(q, n) == SubSeq(q, Len(q) - n + 1, Len(q))

Line1 == <<"h", "e", "l", "l", "o", ",", " ", "w", "o", "r", "l", "d", "!", "\n">>

Line2 == <<"s", "1", " ", "=", " ", "h", "e", "l", "l", "o", ",", " ",
           "s", "2", " ", "=", " ", "h", "e", "l", "l", "o", "\n">>

Line3 == <<"x", " ", "=", " ", "5", ",", " ", "y", " ", "=", " ", "5", "\n">>

\* the first line of each block
BlockStart == <<3, 11, 20, 30, 38, 46>>

\* the number of blocks begun before line p
Entered(p) == Cardinality({k \in 1..6 : BlockStart[k] < p})

\* C1: standard output holds exactly the three lines, in order: nothing is
\* written before line 16, the first line stands alone through blocks 3 and
\* 4 until line 42 has run, the second is added by line 42, the third by
\* line 50, and nothing follows.
C1_Output ==
    /\ pc <= 16 => out = <<>>
    /\ (pc > 16 /\ pc <= 42) => out = Line1
    /\ (pc > 42 /\ pc <= 50) => out = Line1 \o Line2
    /\ pc > 50 => out = Line1 \o Line2 \o Line3

C1_Witness == pc = 53 /\ Len(out) = 50

\* C2: after `let s2 = s1` (line 32) s2 holds "hello", s1 is moved-from, s2
\* is the only valid owner of the buffer, and no later statement reads s1.
C2_Move ==
    /\ [](pc = 35 =>
            /\ env[Bind(4, "s1")].st = "moved"
            /\ env[Bind(4, "s2")].st = "valid"
            /\ Content(Bind(4, "s2")) = Hello
            /\ Owners(env[Bind(4, "s2")].val) = {Bind(4, "s2")})
    /\ [][\A b \in DOMAIN env : env[b].st = "moved" => b \notin rd']_vars

C2_Witness ==
    /\ pc = 35
    /\ rd = {Bind(4, "s1")}
    /\ env[Bind(4, "s1")].st = "moved"

\* C3: after `let s2 = s1.clone()` (line 40) s1 and s2 are both valid, own
\* two distinct buffers at distinct addresses, both hold "hello", and line
\* 42 prints "s1 = hello, s2 = hello".
C3_Clone ==
    /\ pc \in {42, 43} =>
          /\ env[Bind(5, "s1")].st = "valid"
          /\ env[Bind(5, "s2")].st = "valid"
          /\ env[Bind(5, "s1")].val # env[Bind(5, "s2")].val
          /\ heap[env[Bind(5, "s1")].val].addr # heap[env[Bind(5, "s2")].val].addr
          /\ Owners(env[Bind(5, "s1")].val) = {Bind(5, "s1")}
          /\ Owners(env[Bind(5, "s2")].val) = {Bind(5, "s2")}
          /\ Content(Bind(5, "s1")) = Hello
          /\ Content(Bind(5, "s2")) = Hello
    /\ pc = 43 => Last(out, Len(Line2)) = Line2

C3_Witness ==
    /\ pc = 43
    /\ rd = {Bind(5, "s1"), Bind(5, "s2")}
    /\ Content(Bind(5, "s2")) = Hello

\* C4: after push_str(", world!") (line 14) on a buffer built from "hello"
\* the buffer holds exactly "hello, world!", the concatenation of the two,
\* and that text is what line 16 prints.
C4_PushStr ==
    /\ pc \in {16, 17} =>
          /\ Content(Bind(2, "s")) = Hello \o CommaWorld
          /\ Content(Bind(2, "s")) \o <<"\n">> = Line1
    /\ pc = 17 => (rd = {Bind(2, "s")} /\ out = Content(Bind(2, "s")) \o <<"\n">>)

C4_Witness == pc = 17 /\ wr = {} /\ Len(out) = 14

\* C5: after `let y = x` (line 48) x and y are both valid and both equal 5,
\* and line 50 reads both and prints "x = 5, y = 5".
C5_Copy ==
    /\ pc \in {50, 51} =>
          /\ env[Bind(6, "x")] = Val("i32", 5)
          /\ env[Bind(6, "y")] = Val("i32", 5)
    /\ pc = 51 => (rd = {Bind(6, "x"), Bind(6, "y")} /\ Last(out, Len(Line3)) = Line3)

C5_Witness == pc = 51 /\ env[Bind(6, "x")].st = "valid" /\ Bind(6, "x") \in rd

\* a buffer released twice, or an exit status other than success
ErrorState ==
    \/ \E i \in 1..Len(heap) : heap[i].rel > 1
    \/ exit \notin {<<>>, <<0>>}
    \/ \E b \in rd : b \notin DOMAIN env

\* C6: every run reaches the end of main and exits with status 0, and no
\* state on the way is an error state.
C6_Terminates == <>(pc = 53 /\ exit = <<0>>) /\ [](~ErrorState)

C6_Witness == exit = <<0>> /\ scopes = <<>>

\* the bindings in scope before the statement at line p runs
LiveAt(p) ==
    CASE p = 8          -> {Bind(1, "s")}
      [] p \in {14, 16, 17} -> {Bind(2, "s")}
      [] p = 25         -> {Bind(3, "s")}
      [] p = 32         -> {Bind(4, "s1")}
      [] p = 35         -> {Bind(4, "s1"), Bind(4, "s2")}
      [] p = 40         -> {Bind(5, "s1")}
      [] p \in {42, 43} -> {Bind(5, "s1"), Bind(5, "s2")}
      [] p = 48         -> {Bind(6, "x")}
      [] p \in {50, 51} -> {Bind(6, "x"), Bind(6, "y")}
      [] OTHER          -> {}

\* C7: a binding is in scope from its declaration to the closing brace of
\* its block and nowhere else: the bindings in scope are exactly those
\* declared so far in the block being executed.
C7_Scope ==
    /\ DOMAIN env = LiveAt(pc)
    /\ \A b \in DOMAIN env : b.blk = Entered(pc)
    /\ DOMAIN env = UNION {Range(scopes[k]) : k \in 1..Len(scopes)}

C7_Witness == pc = 27 /\ DOMAIN env = {} /\ Len(heap) = 2

\* C8: after the clone, a push_str on one of s1, s2 leaves the text of the
\* other unchanged.
C8_Independent ==
    [][(pc = 42 /\ pc' = 42) =>
          \A b \in {Bind(5, "s1"), Bind(5, "s2")} :
              b \notin wr' => Content(b)' = Content(b)]_vars

C8_Witness ==
    /\ pc = 42
    /\ wr = {Bind(5, "s1")}
    /\ Content(Bind(5, "s1")) # Content(Bind(5, "s2"))

\* C9: the blocks run once each in the order 1 to 6, and each is entered
\* with no binding in scope and no live buffer.
C9_Blocks ==
    /\ trace = [k \in 1..Entered(pc) |-> k]
    /\ (pc \in Range(BlockStart) \/ pc = 52) =>
          /\ DOMAIN env = {}
          /\ Live(heap) = {}
          /\ scopes = << <<>> >>
    /\ pc = 53 => trace = <<1, 2, 3, 4, 5, 6>>

C9_Witness == pc = 46 /\ trace = <<1, 2, 3, 4, 5>> /\ Live(heap) = {}

\* C10: every buffer is released exactly once, at the end of the block of
\* its owner: a live buffer has exactly one valid owner, none is live
\* between blocks or at exit, the buffer of the move block is released once
\* and the two of the clone block once each.
C10_Release ==
    /\ \A i \in 1..Len(heap) :
          /\ heap[i].rel <= 1
          /\ heap[i].rel = 0 => Cardinality(Owners(i)) = 1
    /\ (pc \in Range(BlockStart) \/ pc \in {27, 52, 53}) => Live(heap) = {}
    /\ pc >= 38 => heap[3].rel = 1
    /\ pc >= 46 => (heap[4].rel = 1 /\ heap[5].rel = 1)
    /\ pc = 53 => (Len(heap) = 5 /\ \A i \in 1..5 : heap[i].rel = 1)

C10_Witness == pc = 38 /\ Len(heap) = 3 /\ heap[3].rel = 1

====
